---- MODULE Spec2Model ----
(***************************************************************************)
(* Model of src/src/sync.rs: SpinLock (atomic-cas strategy), Ready and     *)
(* OnceCell<T>.  Every atomic access of the source (load, swap, store,     *)
(* compare_exchange) is one step of the calling thread; the non-atomic     *)
(* write of the OnceCell slot takes two steps.                             *)
(***************************************************************************)
EXTENDS Naturals, Sequences, FiniteSets

VARIABLES
    lock,            \* SpinLock.lock : AtomicBool
    lpc,             \* per thread: position in the SpinLock operations
    try_log,         \* per thread: the results of its try_lock() calls, in order
    ready,           \* Ready.ready : AtomicU8 of a stand-alone Ready
    r_panicked,      \* a step() call on the stand-alone Ready panicked
    step_calls,      \* number of step(from) calls, from in {NOT_READY, IN_TRANSIT}
    step_oks,        \* number of those calls that returned true
    is_log,          \* results of the is() calls made so far (a set)
    was_ready,       \* the stand-alone Ready has been in state READY
    probe,           \* one step(from) call on a Ready in state s, with its outcome
    cell,            \* OnceCell { value, init }
    pc,              \* per thread: position in the OnceCell operations
    op,              \* per thread: the public operation in progress
    arg,             \* per thread: the value passed (Option: <<>> or <<v>>)
    hist,            \* per thread: its completed calls, in program order
    ncalls,          \* number of public OnceCell calls made so far
    won,             \* threads whose step(NOT_READY) succeeded
    published,       \* threads whose step(IN_TRANSIT) succeeded
    writes,          \* number of writes of the slot started so far
    f_calls,         \* number of invocations of a do_or_get closure
    interrupts,      \* single-core strategy: interrupts are globally enabled
    active,          \* single-core strategy: the context that is executing
    sc_depth,        \* per lock and context: acquisitions not yet unlocked
    sc_last          \* the last SpinLock call of the single-core strategy

lockVars  == <<lock, lpc, try_log>>
readyVars == <<ready, r_panicked, step_calls, step_oks, is_log, was_ready, probe>>
cellVars  == <<cell, pc, op, arg, hist, ncalls, won, published, writes, f_calls>>
scVars    == <<interrupts, active, sc_depth, sc_last>>
vars      == <<lockVars, readyVars, cellVars, scVars>>

\* ------------------------------------------------------------ bounds
NThreads == 2
MaxCalls == 3
MaxSteps == 4
MaxTries == 2
NLocks   == 2
MaxNest  == 2

Threads == 1..NThreads

\* Single-core strategy: the SpinLock instances, and the two contexts that
\* contend on one core, the main execution context and an interrupt handler.
Locks    == 1..NLocks
Contexts == {"main", "handler"}

\* ------------------------------------------------------------ Ready
NOT_READY  == 0
IN_TRANSIT == 1
READY      == 2
U8         == 256

\* AtomicU8::compare_exchange(current, new) on a word holding cur.
compare_exchange(cur, current, new) ==
    [ok |-> cur = current, val |-> IF cur = current THEN new ELSE cur]

\* Mutant of forward: the result of the compare_exchange is read with
\* is_err() instead of is_ok().
forward_is_err(cur, from, to) ==
    [ok  |-> ~compare_exchange(cur, from, to).ok,
     val |-> compare_exchange(cur, from, to).val]

\* Mutant of forward: a plain store of _to instead of a compare_exchange.
forward_store(cur, from, to) == [ok |-> TRUE, val |-> to]

\* Ready::forward(_from, _to)
forward(cur, from, to) == compare_exchange(cur, from, to)

\* The outcome of a step() call that reached forward(from, to).
Forwarded(cur, from, to) ==
    [ok    |-> forward(cur, from, to).ok,
     val   |-> forward(cur, from, to).val,
     panic |-> FALSE]

\* Ready::step(from): forward(from, from + 1), as the set of outcomes the
\* build can produce.  `from + 1` is u8 arithmetic: at from = 255 it panics
\* in a build with overflow checks and wraps to 0 in a build without.
step(cur, from) ==
    IF from + 1 < U8
        THEN {Forwarded(cur, from, from + 1)}
        ELSE {[ok |-> FALSE, val |-> cur, panic |-> TRUE],
              Forwarded(cur, from, (from + 1) % U8)}

\* Mutant of is: any state past NOT_READY counts as ready.
is_started(cur) == cur # NOT_READY

\* Ready::is()
is(cur) == cur = READY

\* ------------------------------------------------------------ OnceCell
Values == {10, 20}          \* the values callers supply
Junk   == 0                 \* a bit pattern nobody supplied
T      == Values \cup {Junk}

None    == <<>>
Some(v) == <<v>>

\* UnsafeCell<MaybeUninit<T>>
Uninit     == [tag |-> "uninit",  bits |-> Junk]
Partial    == [tag |-> "partial", bits |-> Junk]
Written(v) == [tag |-> "init",    bits |-> v]

\* OnceCell::get_unchecked: the values assume_init_ref() may yield.  Reading
\* a slot that is uninitialized or being written is undefined behaviour.
get_unchecked(slot) == IF slot.tag = "init" THEN {slot.bits} ELSE T

\* SpinLock::new()
InitLock ==
    /\ lock = FALSE
    /\ lpc = [t \in Threads |-> "idle"]
    /\ try_log = [t \in Threads |-> <<>>]

\* Ready::new()
InitReady ==
    /\ ready = NOT_READY
    /\ r_panicked = FALSE
    /\ step_calls = [s \in {NOT_READY, IN_TRANSIT} |-> 0]
    /\ step_oks = [s \in {NOT_READY, IN_TRANSIT} |-> 0]
    /\ is_log = {}
    /\ was_ready = FALSE
    /\ probe = <<>>

\* OnceCell::new()
InitCell ==
    /\ cell = [value |-> Uninit, init |-> NOT_READY]
    /\ pc = [t \in Threads |-> "idle"]
    /\ op = [t \in Threads |-> "none"]
    /\ arg = [t \in Threads |-> None]
    /\ hist = [t \in Threads |-> <<>>]
    /\ ncalls = 0
    /\ won = {}
    /\ published = {}
    /\ writes = 0
    /\ f_calls = 0

\* Single core: the main context runs with interrupts enabled and no
\* lock taken.
InitSingleCore ==
    /\ interrupts = TRUE
    /\ active = "main"
    /\ sc_depth = [l \in Locks |-> [c \in Contexts |-> 0]]
    /\ sc_last = <<>>

Init ==
    /\ InitLock
    /\ InitReady
    /\ InitCell
    /\ InitSingleCore

\* A public call returns r to its caller.
Complete(t, r) ==
    /\ pc' = [pc EXCEPT ![t] = "idle"]
    /\ hist' = [hist EXCEPT ![t] = Append(@, [op |-> op[t], arg |-> arg[t], ret |-> r])]
    /\ op' = [op EXCEPT ![t] = "none"]
    /\ arg' = [arg EXCEPT ![t] = None]

\* OnceCell::set returns r: to the caller, or into set_or_get.
SetReturn(t, r) ==
    IF op[t] = "set" \/ r # None
        THEN Complete(t, r)
        ELSE /\ pc' = [pc EXCEPT ![t] = "sog_wait"]
             /\ UNCHANGED <<hist, op, arg>>

Call(t, o, a, at) ==
    /\ pc[t] = "idle"
    /\ ncalls < MaxCalls
    /\ ncalls' = ncalls + 1
    /\ pc' = [pc EXCEPT ![t] = at]
    /\ op' = [op EXCEPT ![t] = o]
    /\ arg' = [arg EXCEPT ![t] = a]
    /\ UNCHANGED <<cell, hist, won, published, writes, f_calls>>
    /\ UNCHANGED <<lockVars, readyVars, scVars>>

CallGet(t)         == Call(t, "get", None, "get_is")
CallSet(t, v)      == Call(t, "set", Some(v), "set_is")
CallSetOrGet(t, v) == Call(t, "set_or_get", Some(v), "set_is")
CallDoOrGet(t, v)  == Call(t, "do_or_get", Some(v), "dog_f")

\* Mutant of Get_is: get() reads the slot without consulting init.is().
Get_is_unchecked(t) ==
    /\ pc[t] = "get_is"
    /\ pc' = [pc EXCEPT ![t] = "get_read"]
    /\ UNCHANGED <<cell, op, arg, hist, ncalls, won, published, writes, f_calls>>
    /\ UNCHANGED <<lockVars, readyVars, scVars>>

\* get: if self.init.is()
Get_is(t) ==
    /\ pc[t] = "get_is"
    /\ IF is(cell.init)
          THEN /\ pc' = [pc EXCEPT ![t] = "get_read"]
               /\ UNCHANGED <<hist, op, arg>>
          ELSE Complete(t, None)
    /\ UNCHANGED <<cell, ncalls, won, published, writes, f_calls>>
    /\ UNCHANGED <<lockVars, readyVars, scVars>>

\* get: Some(unsafe { self.get_unchecked() })
Get_read(t) ==
    /\ pc[t] = "get_read"
    /\ \E v \in get_unchecked(cell.value) : Complete(t, Some(v))
    /\ UNCHANGED <<cell, ncalls, won, published, writes, f_calls>>
    /\ UNCHANGED <<lockVars, readyVars, scVars>>

\* Mutant of DoOrGet_f: f is invoked only when the cell is not ready yet.
DoOrGet_f_lazy(t) ==
    /\ pc[t] = "dog_f"
    /\ f_calls' = IF is(cell.init) THEN f_calls ELSE f_calls + 1
    /\ pc' = [pc EXCEPT ![t] = "set_is"]
    /\ UNCHANGED <<cell, op, arg, hist, ncalls, won, published, writes>>
    /\ UNCHANGED <<lockVars, readyVars, scVars>>

\* do_or_get: f()
DoOrGet_f(t) ==
    /\ pc[t] = "dog_f"
    /\ f_calls' = f_calls + 1
    /\ pc' = [pc EXCEPT ![t] = "set_is"]
    /\ UNCHANGED <<cell, op, arg, hist, ncalls, won, published, writes>>
    /\ UNCHANGED <<lockVars, readyVars, scVars>>

\* Mutant of Set_is: set() waits for a write in progress to be published.
Set_is_wait(t) ==
    /\ pc[t] = "set_is"
    /\ IF is(cell.init)
          THEN SetReturn(t, None)
          ELSE /\ pc' = [pc EXCEPT ![t] = IF cell.init = IN_TRANSIT
                                             THEN "set_is" ELSE "set_step0"]
               /\ UNCHANGED <<hist, op, arg>>
    /\ UNCHANGED <<cell, ncalls, won, published, writes, f_calls>>
    /\ UNCHANGED <<lockVars, readyVars, scVars>>

\* set: if self.init.is() { return None; }
Set_is(t) ==
    /\ pc[t] = "set_is"
    /\ IF is(cell.init)
          THEN SetReturn(t, None)
          ELSE /\ pc' = [pc EXCEPT ![t] = "set_step0"]
               /\ UNCHANGED <<hist, op, arg>>
    /\ UNCHANGED <<cell, ncalls, won, published, writes, f_calls>>
    /\ UNCHANGED <<lockVars, readyVars, scVars>>

\* Mutant of Set_step_NOT_READY: the result of step(NOT_READY) is ignored
\* and the caller goes on to write the slot.
Set_step_NOT_READY_unchecked(t) ==
    /\ pc[t] = "set_step0"
    /\ \E s \in step(cell.init, NOT_READY) :
         /\ cell' = [cell EXCEPT !.init = s.val]
         /\ pc' = [pc EXCEPT ![t] = "set_write"]
         /\ won' = IF s.ok THEN won \cup {t} ELSE won
    /\ UNCHANGED <<op, arg, hist, ncalls, published, writes, f_calls>>
    /\ UNCHANGED <<lockVars, readyVars, scVars>>

\* set: if self.init.step(Ready::NOT_READY) { ... } return None;
Set_step_NOT_READY(t) ==
    /\ pc[t] = "set_step0"
    /\ \E s \in step(cell.init, NOT_READY) :
         /\ cell' = [cell EXCEPT !.init = s.val]
         /\ IF s.ok
               THEN /\ pc' = [pc EXCEPT ![t] = "set_write"]
                    /\ won' = won \cup {t}
                    /\ UNCHANGED <<hist, op, arg>>
               ELSE /\ SetReturn(t, None)
                    /\ UNCHANGED won
    /\ UNCHANGED <<ncalls, published, writes, f_calls>>
    /\ UNCHANGED <<lockVars, readyVars, scVars>>

\* set: self.value.get().write(MaybeUninit::new(value)), first part
Set_write_begin(t) ==
    /\ pc[t] = "set_write"
    /\ cell' = [cell EXCEPT !.value = Partial]
    /\ writes' = writes + 1
    /\ pc' = [pc EXCEPT ![t] = "set_writing"]
    /\ UNCHANGED <<op, arg, hist, ncalls, won, published, f_calls>>
    /\ UNCHANGED <<lockVars, readyVars, scVars>>

\* set: self.value.get().write(MaybeUninit::new(value)), completed
Set_write_end(t) ==
    /\ pc[t] = "set_writing"
    /\ cell' = [cell EXCEPT !.value = Written(arg[t][1])]
    /\ pc' = [pc EXCEPT ![t] = "set_step1"]
    /\ UNCHANGED <<op, arg, hist, ncalls, won, published, writes, f_calls>>
    /\ UNCHANGED <<lockVars, readyVars, scVars>>

\* set: if self.init.step(Ready::IN_TRANSIT) { ... } unreachable!();
Set_step_IN_TRANSIT(t) ==
    /\ pc[t] = "set_step1"
    /\ \E s \in step(cell.init, IN_TRANSIT) :
         /\ cell' = [cell EXCEPT !.init = s.val]
         /\ IF s.ok
               THEN /\ pc' = [pc EXCEPT ![t] = "set_read"]
                    /\ published' = published \cup {t}
               ELSE /\ pc' = [pc EXCEPT ![t] = "unreachable"]
                    /\ UNCHANGED published
    /\ UNCHANGED <<op, arg, hist, ncalls, won, writes, f_calls>>
    /\ UNCHANGED <<lockVars, readyVars, scVars>>

\* set: return Some(unsafe { self.get_unchecked() });
Set_read(t) ==
    /\ pc[t] = "set_read"
    /\ \E v \in get_unchecked(cell.value) : SetReturn(t, Some(v))
    /\ UNCHANGED <<cell, ncalls, won, published, writes, f_calls>>
    /\ UNCHANGED <<lockVars, readyVars, scVars>>

\* Mutant of SetOrGet_wait: set_or_get reads the slot without waiting.
SetOrGet_nowait(t) ==
    /\ pc[t] = "sog_wait"
    /\ pc' = [pc EXCEPT ![t] = "sog_read"]
    /\ UNCHANGED <<cell, op, arg, hist, ncalls, won, published, writes, f_calls>>
    /\ UNCHANGED <<lockVars, readyVars, scVars>>

\* set_or_get: while !self.init.is() { asm::nop(); }
SetOrGet_wait(t) ==
    /\ pc[t] = "sog_wait"
    /\ pc' = [pc EXCEPT ![t] = IF is(cell.init) THEN "sog_read" ELSE "sog_wait"]
    /\ UNCHANGED <<cell, op, arg, hist, ncalls, won, published, writes, f_calls>>
    /\ UNCHANGED <<lockVars, readyVars, scVars>>

\* set_or_get: unsafe { self.get_unchecked() }
SetOrGet_read(t) ==
    /\ pc[t] = "sog_read"
    /\ \E v \in get_unchecked(cell.value) : Complete(t, Some(v))
    /\ UNCHANGED <<cell, ncalls, won, published, writes, f_calls>>
    /\ UNCHANGED <<lockVars, readyVars, scVars>>

NextOnceCell ==
    \E t \in Threads :
        \/ CallGet(t)
        \/ \E v \in Values : CallSet(t, v)
        \/ \E v \in Values : CallSetOrGet(t, v)
        \/ \E v \in Values : CallDoOrGet(t, v)
        \/ Get_is(t)
        \/ Get_read(t)
        \/ DoOrGet_f(t)
        \/ Set_is(t)
        \/ Set_step_NOT_READY(t)
        \/ Set_write_begin(t)
        \/ Set_write_end(t)
        \/ Set_step_IN_TRANSIT(t)
        \/ Set_read(t)
        \/ SetOrGet_wait(t)
        \/ SetOrGet_read(t)

SpecOnceCell == Init /\ [][NextOnceCell]_vars

\* The steps thread t takes inside a call it has made.
Run(t) ==
    \/ Get_is(t)
    \/ Get_read(t)
    \/ DoOrGet_f(t)
    \/ Set_is(t)
    \/ Set_step_NOT_READY(t)
    \/ Set_write_begin(t)
    \/ Set_write_end(t)
    \/ Set_step_IN_TRANSIT(t)
    \/ Set_read(t)
    \/ SetOrGet_wait(t)
    \/ SetOrGet_read(t)

\* Every caller keeps executing the call it is in (each runs on a core of
\* its own, or returns from its interrupt); nobody is obliged to call.
FairOnceCell == \A t \in Threads : WF_vars(Run(t))

SpecOnceCellFair == SpecOnceCell /\ FairOnceCell

\* ------------------------------------------------------------ Ready, stand-alone
Protocol == {NOT_READY, IN_TRANSIT}

\* r.step(from), for any u8 from.  The calls with from in Protocol are counted.
Ready_step(from) ==
    /\ from \in Protocol => step_calls[from] < MaxSteps
    /\ \E s \in step(ready, from) :
         /\ ready' = s.val
         /\ r_panicked' = (r_panicked \/ s.panic)
         /\ was_ready' = (was_ready \/ s.val = READY)
         /\ IF from \in Protocol
               THEN /\ step_calls' = [step_calls EXCEPT ![from] = @ + 1]
                    /\ step_oks' = [step_oks EXCEPT ![from] = IF s.ok THEN @ + 1 ELSE @]
               ELSE UNCHANGED <<step_calls, step_oks>>
    /\ UNCHANGED <<is_log, probe>>
    /\ UNCHANGED <<lockVars, cellVars, scVars>>

\* r.is()
Ready_is ==
    /\ is_log' = is_log \cup {is(ready)}
    /\ UNCHANGED <<ready, r_panicked, step_calls, step_oks, was_ready, probe>>
    /\ UNCHANGED <<lockVars, cellVars, scVars>>

\* Callers use the whole public API: step(from) for any u8 from, and is().
NextReady ==
    \/ \E from \in 0..(U8 - 1) : Ready_step(from)
    \/ Ready_is

SpecReady == Init /\ [][NextReady]_vars

\* Callers follow the documented procedure: step(NOT_READY), step(IN_TRANSIT), is().
NextReadyProtocol ==
    \/ \E from \in Protocol : Ready_step(from)
    \/ Ready_is

SpecReadyProtocol == Init /\ [][NextReadyProtocol]_vars

\* One call r.step(from) on a Ready whose state is s, for any u8 s and from
\* (every u8 is a state step() can leave the flag in).
Step_probe(s, from) ==
    /\ probe = <<>>
    /\ \E o \in step(s, from) : probe' = <<[s |-> s, from |-> from, out |-> o]>>
    /\ UNCHANGED <<ready, r_panicked, step_calls, step_oks, is_log, was_ready>>
    /\ UNCHANGED <<lockVars, cellVars, scVars>>

NextStepProbe ==
    /\ probe = <<>>
    /\ \E s, from \in 0..(U8 - 1) : Step_probe(s, from)

SpecStepProbe == Init /\ [][NextStepProbe]_vars

\* ------------------------------------------------------------ Ready claims
\* C16: for every u8 from and every state s, step(from) returns true and
\* leaves the flag at from + 1 when s = from, and returns false and leaves
\* the flag alone when s # from.
C16_StepIsCasToSuccessor ==
    \A i \in 1..Len(probe) :
        /\ ~probe[i].out.panic
        /\ probe[i].out.ok = (probe[i].s = probe[i].from)
        /\ probe[i].out.val = IF probe[i].s = probe[i].from
                                 THEN probe[i].from + 1
                                 ELSE probe[i].s

\* C5: through the public API the flag only ever moves 0 -> 1 and 1 -> 2,
\* enters READY at most once, and once is() has returned true no step
\* call makes is() false again.
C5_ForwardOnlyTerminal ==
    [][/\ ready' # ready => <<ready, ready'>> \in {<<NOT_READY, IN_TRANSIT>>,
                                                  <<IN_TRANSIT, READY>>}
       /\ (ready # READY /\ ready' = READY) => ~was_ready
       /\ TRUE \in is_log => is(ready')]_vars

\* C10: of the step(0) calls exactly one returns true; of the step(1)
\* calls made after it exactly one returns true, and none before it;
\* is() is true exactly from the successful step(1) on.
C10_EachEdgeOnce ==
    /\ [](\A from \in Protocol : step_oks[from] <= 1)
    /\ [](step_calls[NOT_READY] >= 1 => step_oks[NOT_READY] = 1)
    /\ [](step_oks[IN_TRANSIT] = 1 => step_oks[NOT_READY] = 1)
    /\ [][(step_calls'[IN_TRANSIT] > step_calls[IN_TRANSIT] /\ step_oks[NOT_READY] = 1)
             => step_oks'[IN_TRANSIT] = 1]_vars
    /\ [](is(ready) <=> step_oks[IN_TRANSIT] = 1)
    /\ [][is_log' # is_log => is_log' = is_log \cup {step_oks[IN_TRANSIT] = 1}]_vars

\* step(0) and step(1) were each called repeatedly, each succeeded once,
\* and is() has been seen false and then true.
C10_Witness ==
    /\ step_calls[NOT_READY] = MaxSteps
    /\ step_calls[IN_TRANSIT] = MaxSteps
    /\ step_oks[NOT_READY] = 1
    /\ step_oks[IN_TRANSIT] = 1
    /\ is_log = {FALSE, TRUE}

\* ------------------------------------------------------------ SpinLock
\* AtomicBool::swap(val): the previous value and the value left behind.
swap(cur, val) == [old |-> cur, val |-> val]

\* Mutant of compare_exchange_weak: the flag is set without comparing.
compare_exchange_weak_store(cur, current, new) == {[ok |-> TRUE, val |-> new]}

\* AtomicBool::compare_exchange_weak(current, new): as compare_exchange,
\* but it may also fail spuriously and leave the word alone.
compare_exchange_weak(cur, current, new) ==
    {compare_exchange(cur, current, new), [ok |-> FALSE, val |-> cur]}

\* A caller that does not hold the lock enters lock().
Lock_call(t) ==
    /\ lpc[t] = "idle"
    /\ lpc' = [lpc EXCEPT ![t] = "lock"]
    /\ UNCHANGED <<lock, try_log>>
    /\ UNCHANGED <<readyVars, cellVars, scVars>>

\* lock: while self.lock.compare_exchange_weak(false, true, ..).is_err() { nop }
Lock_cas(t) ==
    /\ lpc[t] = "lock"
    /\ \E c \in compare_exchange_weak(lock, FALSE, TRUE) :
         /\ lock' = c.val
         /\ lpc' = [lpc EXCEPT ![t] = IF c.ok THEN "held" ELSE "lock"]
    /\ UNCHANGED try_log
    /\ UNCHANGED <<readyVars, cellVars, scVars>>

\* Mutant of Try_lock: the swapped-out value is returned without negation.
Try_lock_not_negated(t) ==
    /\ lpc[t] \in {"idle", "held"}
    /\ Len(try_log[t]) < MaxTries
    /\ lock' = swap(lock, TRUE).val
    /\ try_log' = [try_log EXCEPT ![t] = Append(@, swap(lock, TRUE).old)]
    /\ lpc' = [lpc EXCEPT ![t] = IF swap(lock, TRUE).old THEN "held" ELSE @]
    /\ UNCHANGED <<readyVars, cellVars, scVars>>

\* try_lock: return !self.lock.swap(true, Ordering::Acquire);
Try_lock(t) ==
    /\ lpc[t] \in {"idle", "held"}
    /\ Len(try_log[t]) < MaxTries
    /\ lock' = swap(lock, TRUE).val
    /\ try_log' = [try_log EXCEPT ![t] = Append(@, ~swap(lock, TRUE).old)]
    /\ lpc' = [lpc EXCEPT ![t] = IF ~swap(lock, TRUE).old THEN "held" ELSE @]
    /\ UNCHANGED <<readyVars, cellVars, scVars>>

\* Mutant of Unlock: the holder leaves without clearing the flag.
Unlock_no_store(t) ==
    /\ lpc[t] = "held"
    /\ lpc' = [lpc EXCEPT ![t] = "idle"]
    /\ UNCHANGED <<lock, try_log>>
    /\ UNCHANGED <<readyVars, cellVars, scVars>>

\* unlock, called by the holder: self.lock.store(false, Ordering::Release)
Unlock(t) ==
    /\ lpc[t] = "held"
    /\ lock' = FALSE
    /\ lpc' = [lpc EXCEPT ![t] = "idle"]
    /\ UNCHANGED try_log
    /\ UNCHANGED <<readyVars, cellVars, scVars>>

NextSpinLock ==
    \E t \in Threads :
        \/ Lock_call(t)
        \/ Lock_cas(t)
        \/ Try_lock(t)
        \/ Unlock(t)

SpecSpinLock == Init /\ [][NextSpinLock]_vars

\* Fair scheduling of the callers: a caller spinning in lock() keeps
\* attempting its compare_exchange_weak, which does not fail spuriously for
\* ever, and a holder releases the lock after finitely many steps.  Nothing
\* orders the waiters.
FairSpinLock ==
    \A t \in Threads : WF_vars(Lock_cas(t)) /\ WF_vars(Unlock(t))

SpecSpinLockFair == SpecSpinLock /\ FairSpinLock

\* ------------------------------------------------------------ SpinLock claims
Holders == {t \in Threads : lpc[t] = "held"}

\* Thread t's try_lock() returns in this step.
TryReturns(t) == Len(try_log'[t]) > Len(try_log[t])

TryResult(t) == try_log'[t][Len(try_log'[t])]

\* C3: at most one caller holds the lock; the flag becomes true only in
\* a successful lock()/try_lock(), false only in the holder's unlock();
\* while it is held no lock() returns and no try_lock() returns true.
C3_MutualExclusion ==
    /\ [](Cardinality(Holders) <= 1)
    /\ [](lock <=> Holders # {})
    /\ [][(~lock /\ lock') =>
            \E t \in Threads : /\ lpc[t] # "held" /\ lpc'[t] = "held"
                               /\ (TryReturns(t) => TryResult(t))]_vars
    /\ [][(lock /\ ~lock') =>
            \E t \in Holders : lpc'[t] = "idle"]_vars
    /\ [][Holders # {} =>
            \A t \in Threads \ Holders :
                /\ lpc'[t] # "held"
                /\ TryReturns(t) => ~TryResult(t)]_vars

\* One caller holds the lock while another spins in lock() and has also
\* had a try_lock() refused.
C3_Witness ==
    \E t, u \in Threads :
        /\ lpc[t] = "held"
        /\ lpc[u] = "lock"
        /\ try_log[u] # <<>>
        /\ ~try_log[u][Len(try_log[u])]

\* C9: try_lock() returns true exactly when the flag was false at its
\* swap, which is exactly when nobody held the lock; a refused try_lock()
\* leaves the lock with its holder; the holder's unlock() clears the flag,
\* so that the next try_lock() returns true.
C9_TryLockResult ==
    /\ [][\A t \in Threads : TryReturns(t) =>
            /\ TryResult(t) = ~lock
            /\ TryResult(t) = (Holders = {})
            /\ lock'
            /\ ~TryResult(t) => lpc' = lpc]_vars
    /\ [][\A t \in Holders : lpc'[t] = "idle" => ~lock' /\ Holders' = {}]_vars

\* A caller's try_lock() was refused while another held the lock, and
\* succeeded after the holder's unlock().
C9_Witness ==
    \E t \in Threads :
        /\ try_log[t] = <<FALSE, TRUE>>
        /\ lpc[t] = "held"
        /\ \E u \in Threads \ {t} : try_log[u] = <<TRUE>> /\ lpc[u] = "idle"

\* C11, as claimed: under fair scheduling every lock() call eventually
\* returns with the lock acquired.
C11_EveryLockReturns ==
    \A t \in Threads : (lpc[t] = "lock") ~> (lpc[t] = "held")

\* C11, amended: under fair scheduling a held lock is eventually released,
\* and while some caller spins in lock() on a free lock, some caller
\* eventually acquires it; which one is not determined.
C11_SomeCallerAcquires ==
    /\ lock ~> ~lock
    /\ (~lock /\ \E t \in Threads : lpc[t] = "lock") ~> (Holders # {})

\* One caller spins in lock() while another, which acquired the lock
\* with lock(), holds it.
C11_Witness ==
    \E t, u \in Threads :
        /\ lpc[t] = "lock"
        /\ lpc[u] = "held"
        /\ \A w \in Threads : try_log[w] = <<>>

\* ------------------------------------------------------------ SpinLock, single core
\* interrupt::disable() and interrupt::enable(): the global interrupt mask.
interrupt_disable == FALSE
interrupt_enable  == TRUE

\* A SpinLock call by the executing context is recorded with its result.
Called(o, l, r) == <<[op |-> o, lock |-> l, ctx |-> active, ret |-> r]>>

\* lock (not atomic-cas): interrupt::disable(); return;
Sc_lock(l) ==
    /\ sc_depth[l][active] < MaxNest
    /\ interrupts' = interrupt_disable
    /\ sc_depth' = [sc_depth EXCEPT ![l][active] = @ + 1]
    /\ sc_last' = Called("lock", l, TRUE)
    /\ UNCHANGED active
    /\ UNCHANGED <<lockVars, readyVars, cellVars>>

\* Mutant of Sc_try_lock: try_lock refuses a lock that is already taken.
Sc_try_lock_exclusive(l) ==
    /\ sc_depth[l][active] < MaxNest
    /\ interrupts' = interrupt_disable
    /\ IF \E c \in Contexts : sc_depth[l][c] > 0
          THEN /\ sc_last' = Called("try_lock", l, FALSE)
               /\ UNCHANGED sc_depth
          ELSE /\ sc_last' = Called("try_lock", l, TRUE)
               /\ sc_depth' = [sc_depth EXCEPT ![l][active] = @ + 1]
    /\ UNCHANGED active
    /\ UNCHANGED <<lockVars, readyVars, cellVars>>

\* try_lock (not atomic-cas): interrupt::disable(); return true;
Sc_try_lock(l) ==
    /\ sc_depth[l][active] < MaxNest
    /\ interrupts' = interrupt_disable
    /\ sc_depth' = [sc_depth EXCEPT ![l][active] = @ + 1]
    /\ sc_last' = Called("try_lock", l, TRUE)
    /\ UNCHANGED active
    /\ UNCHANGED <<lockVars, readyVars, cellVars>>

\* unlock (not atomic-cas), called by a context that holds l:
\* return unsafe { interrupt::enable() };
Sc_unlock(l) ==
    /\ sc_depth[l][active] > 0
    /\ interrupts' = interrupt_enable
    /\ sc_depth' = [sc_depth EXCEPT ![l][active] = @ - 1]
    /\ sc_last' = Called("unlock", l, TRUE)
    /\ UNCHANGED active
    /\ UNCHANGED <<lockVars, readyVars, cellVars>>

\* An interrupt preempts the main context; it can only while interrupts
\* are enabled.
Irq_enter ==
    /\ active = "main"
    /\ interrupts
    /\ active' = "handler"
    /\ UNCHANGED <<interrupts, sc_depth, sc_last>>
    /\ UNCHANGED <<lockVars, readyVars, cellVars>>

\* The handler returns, having unlocked what it locked.
Irq_return ==
    /\ active = "handler"
    /\ \A l \in Locks : sc_depth[l]["handler"] = 0
    /\ active' = "main"
    /\ UNCHANGED <<interrupts, sc_depth, sc_last>>
    /\ UNCHANGED <<lockVars, readyVars, cellVars>>

NextSingleCore ==
    \/ \E l \in Locks : Sc_lock(l)
    \/ \E l \in Locks : Sc_try_lock(l)
    \/ \E l \in Locks : Sc_unlock(l)
    \/ Irq_enter
    \/ Irq_return

SpecSingleCore == Init /\ [][NextSingleCore]_vars

\* ------------------------------------------------------------ single-core claims
\* C15: lock() and try_lock() return with interrupts disabled, try_lock()
\* returns true whatever the state of the lock, and unlock() returns with
\* interrupts enabled.
C15_MaskOnlyLock ==
    \A i \in 1..Len(sc_last) :
        /\ sc_last[i].op \in {"lock", "try_lock"} => ~interrupts
        /\ sc_last[i].op = "try_lock" => sc_last[i].ret
        /\ sc_last[i].op \in {"lock", "try_lock"} =>
              sc_depth[sc_last[i].lock][sc_last[i].ctx] > 0
        /\ sc_last[i].op = "unlock" => interrupts

\* try_lock() returned true in the handler for a lock the interrupted
\* main context holds.
C15_Witness ==
    /\ sc_last # <<>>
    /\ sc_last[1].op = "try_lock"
    /\ sc_last[1].ret
    /\ sc_last[1].ctx = "handler"
    /\ sc_depth[sc_last[1].lock]["main"] > 0
    /\ ~interrupts

\* No context holds one lock twice over, and the last unlock released its
\* lock: what is still held are critical sections of other locks.
NoReacquisition ==
    /\ \A l \in Locks : \A c \in Contexts : sc_depth[l][c] <= 1
    /\ \A i \in 1..Len(sc_last) :
          sc_last[i].op = "unlock" =>
              \A c \in Contexts : sc_depth[sc_last[i].lock][c] = 0

\* C18: in every properly paired use, whenever a SpinLock is held (an
\* acquisition has not been matched by its unlock), interrupts are
\* disabled and no handler runs inside a critical section of the main
\* context, nested critical sections of different locks included.
C18_HeldImpliesMasked ==
    (/\ NoReacquisition
     /\ \E l \in Locks : \E c \in Contexts : sc_depth[l][c] > 0) =>
        /\ ~interrupts
        /\ active = "handler" => \A l \in Locks : sc_depth[l]["main"] = 0

\* ------------------------------------------------------------ all objects
\* A SpinLock, a Ready and a OnceCell share no state: each is exercised
\* from its constructed state while the others rest in theirs.
NextSync ==
    \/ InitReady /\ InitCell /\ InitSingleCore /\ NextSpinLock
    \/ InitLock /\ InitCell /\ InitSingleCore /\ NextReadyProtocol
    \/ InitLock /\ InitReady /\ InitSingleCore /\ NextOnceCell
    \/ InitLock /\ InitReady /\ InitCell /\ NextSingleCore

SpecSync == Init /\ [][NextSync]_vars

\* The number of steps a get or a set has left at most, by its position.
Rank(p) ==
    CASE p = "idle"        -> 0
      [] p = "get_read"    -> 1
      [] p = "get_is"      -> 2
      [] p = "set_read"    -> 1
      [] p = "set_step1"   -> 2
      [] p = "set_writing" -> 3
      [] p = "set_write"   -> 4
      [] p = "set_step0"   -> 5
      [] p = "set_is"      -> 6
      [] OTHER             -> 7

\* Every step(from), for any u8 from, and is() can be taken at once.  (The
\* Ready is looked at wherever the cell rests as constructed, which covers
\* every state the Ready is moved to.)
ReadyCallsEnabled ==
    /\ \A from \in 0..(U8 - 1) :
          (from \in Protocol => step_calls[from] < MaxSteps)
             => ENABLED Ready_step(from)
    /\ ENABLED Ready_is

\* C19: try_lock, unlock, Ready::step and Ready::is are one step that the
\* caller can take in every state, and none of them leaves the caller
\* waiting; a get or a set in progress can always take a step of its own
\* that brings it nearer to its return, whatever the other callers do.
C19_NonBlocking ==
    /\ [](\A t \in Threads :
            /\ (lpc[t] \in {"idle", "held"} /\ Len(try_log[t]) < MaxTries)
                  => ENABLED Try_lock(t)
            /\ lpc[t] = "held" => ENABLED Unlock(t))
    /\ [][\A t \in Threads :
            (Try_lock(t) \/ Unlock(t)) => lpc'[t] \in {"idle", "held"}]_vars
    /\ [](\A l \in Locks :
            /\ sc_depth[l][active] < MaxNest => ENABLED Sc_try_lock(l)
            /\ sc_depth[l][active] > 0 => ENABLED Sc_unlock(l))
    /\ [](InitCell => ReadyCallsEnabled)
    /\ [](\A t \in Threads :
            (op[t] \in {"get", "set"} /\ pc[t] # "idle")
               => ENABLED <<Run(t)>>_vars)
    /\ [][\A t \in Threads :
            (op[t] \in {"get", "set"} /\ pc'[t] # pc[t])
               => Rank(pc'[t]) < Rank(pc[t])]_vars

\* A set has returned absence and a get is in progress while another
\* caller rests inside its transit window, the slot half written.
C19_Witness ==
    \E t, u \in Threads :
        /\ t # u
        /\ pc[u] = "set_writing"
        /\ cell.init = IN_TRANSIT
        /\ op[t] = "get"
        /\ pc[t] = "get_is"
        /\ \E i \in 1..Len(hist[t]) : hist[t][i].op = "set" /\ hist[t][i].ret = None

\* ------------------------------------------------------------ OnceCell claims
Range(h) == {h[i] : i \in 1..Len(h)}

\* The calls completed so far, by any thread.
Done == UNION {Range(hist[t]) : t \in Threads}

\* The values returned by the completed calls of the operations in ops.
ReturnedBy(ops) == {c.ret[1] : c \in {d \in Done : d.op \in ops /\ d.ret # None}}

\* The values passed to set(), directly or through set_or_get/do_or_get.
PassedToSet ==
    {c.arg[1] : c \in {d \in Done : d.op # "get"}}
    \cup {arg[t][1] : t \in {u \in Threads : op[u] \notin {"none", "get"}
                                             /\ pc[u] # "dog_f"}}

\* C1: whatever the interleaving of set calls, all get() and set_or_get()
\* calls return one and the same value, it is a value that was passed to
\* set, and it is the value the slot holds.
C1_OneSuppliedValueObserved ==
    LET obs == ReturnedBy({"get", "set_or_get"}) IN
        /\ Cardinality(obs) <= 1
        /\ obs \subseteq PassedToSet
        /\ \A v \in obs : cell.value = Written(v)
        /\ cell.value.tag = "init" => cell.value.bits \in PassedToSet

\* Two set calls with different values raced (the loser is still inside
\* set, past its is() check) and a get() has returned the winner's value.
C1_Witness ==
    \E t, u \in Threads :
        /\ t # u
        /\ op[u] = "set" /\ pc[u] = "set_step0"
        /\ \E c \in Range(hist[t]) : c.op = "set" /\ c.ret = c.arg /\ c.arg # arg[u]
        /\ \E c \in Range(hist[t]) : c.op = "get" /\ c.ret # None

\* Every call made so far, completed or in progress, is a set_or_get.
OnlySetOrGet ==
    /\ \A c \in Done : c.op = "set_or_get"
    /\ \A t \in Threads : op[t] \in {"none", "set_or_get"}

\* The arguments of the set_or_get calls made so far.
SetOrGetArgs ==
    {c.arg[1] : c \in {d \in Done : d.op = "set_or_get"}}
    \cup {arg[t][1] : t \in {u \in Threads : op[u] = "set_or_get"}}

\* C2: all set_or_get calls that return return the same value, and when
\* the callers of the cell all run set_or_get that value is the argument
\* of one of them.
C2_SetOrGetAgree ==
    /\ Cardinality(ReturnedBy({"set_or_get"})) <= 1
    /\ \A c \in Done : c.op = "set_or_get" => c.ret # None
    /\ OnlySetOrGet => ReturnedBy({"set_or_get"}) \subseteq SetOrGetArgs

\* Two callers raced set_or_get with different values and both returned.
C2_Witness ==
    /\ OnlySetOrGet
    /\ \E t, u \in Threads :
        /\ t # u
        /\ Len(hist[t]) = 1 /\ Len(hist[u]) = 1
        /\ hist[t][1].arg # hist[u][1].arg
        /\ hist[t][1].ret = hist[u][1].ret
        /\ hist[t][1].ret = hist[t][1].arg

\* C4: is() is false until some set has made the IN_TRANSIT -> READY
\* transition (so no get() returns a reference before that), and once
\* is() is true it stays true.
C4_ReadinessMonotone ==
    /\ [](is(cell.init) => published # {})
    /\ [](ReturnedBy({"get"}) # {} => published # {})
    /\ [][is(cell.init) => is(cell.init')]_vars

\* The cell is ready and calls were made after it became ready.
C4_Witness ==
    /\ is(cell.init)
    /\ published # {}
    /\ \E t \in Threads : \E c \in Range(hist[t]) : c.op = "set" /\ c.ret = None
    /\ \E t \in Threads : \E c \in Range(hist[t]) : c.op = "get" /\ c.ret # None

\* C6: the slot is written at most once, by the one caller that won
\* step(NOT_READY), while the flag is IN_TRANSIT.
C6_SingleWriteInTransit ==
    /\ [](writes <= 1)
    /\ [](Cardinality(won) <= 1)
    /\ [][cell.value' # cell.value =>
            /\ cell.init = IN_TRANSIT
            /\ cell.init' = IN_TRANSIT
            /\ published = {}
            /\ \E t \in won : /\ pc[t] \in {"set_write", "set_writing"}
                              /\ pc'[t] # pc[t]
                              /\ \A u \in Threads \ {t} : pc'[u] = pc[u]]_vars

\* The slot has been written while another caller lost the race for it.
C6_Witness ==
    /\ writes = 1
    /\ cell.value.tag = "init"
    /\ cell.init = IN_TRANSIT
    /\ \E t \in Threads \ won : pc[t] = "sog_wait"

ReadPoints == {"get_read", "set_read", "sog_read"}

\* C7: get_unchecked runs only when the flag is READY and the slot is
\* written; a get() that finds the flag NOT_READY or IN_TRANSIT returns
\* absence; every reference returned is to the written slot.
C7_NoReadBeforePublish ==
    /\ [](\A t \in Threads : pc[t] \in ReadPoints =>
              cell.init = READY /\ cell.value.tag = "init")
    /\ [](\A c \in Done : c.ret # None =>
              cell.value.tag = "init" /\ c.ret = Some(cell.value.bits))
    /\ [][\A t \in Threads :
            (pc[t] = "get_is" /\ pc'[t] # "get_is" /\ cell.init # READY)
                => (pc'[t] = "idle" /\ hist'[t][Len(hist'[t])].ret = None)]_vars

\* A get() on the fresh cell returned absence, the same caller then set
\* the cell, and another caller's get() is about to read the published slot.
C7_Witness ==
    \E t, u \in Threads :
        /\ pc[t] = "get_read"
        /\ \E c \in Range(hist[u]) : c.op = "get" /\ c.ret = None
        /\ \E c \in Range(hist[u]) : c.op = "set" /\ c.ret # None

\* Thread t is the only caller so far, and has called only set and get.
OnlyCaller(t) ==
    /\ \A u \in Threads \ {t} : op[u] = "none" /\ hist[u] = <<>>
    /\ op[t] \in {"none", "set", "get"}
    /\ \A c \in Range(hist[t]) : c.op \in {"set", "get"}

SetsBefore(h, i) == {j \in 1..(i - 1) : h[j].op = "set"}

FirstSet(h, i) == CHOOSE j \in SetsBefore(h, i) : \A k \in SetsBefore(h, i) : j <= k

\* The sequential behaviour of set and get on a fresh cell.
Sequential(h) ==
    \A i \in 1..Len(h) :
        /\ h[i].op = "set" =>
              h[i].ret = (IF SetsBefore(h, i) = {} THEN h[i].arg ELSE None)
        /\ h[i].op = "get" =>
              h[i].ret = (IF SetsBefore(h, i) = {} THEN None
                          ELSE h[FirstSet(h, i)].arg)

\* C8: with one caller, the first set(v) returns v, every later set
\* returns absence and leaves the stored value alone, and every get()
\* after the first set returns v.
C8_SequentialSetGet ==
    \A t \in Threads :
        OnlyCaller(t) =>
            /\ Sequential(hist[t])
            /\ \A i \in 1..Len(hist[t]) :
                  SetsBefore(hist[t], i) # {} =>
                      cell.value = Written(hist[t][FirstSet(hist[t], i)].arg[1])

\* set(v) returned v, set(w) with w # v returned absence, get() returned v.
C8_Witness ==
    \E t \in Threads :
        /\ OnlyCaller(t)
        /\ Len(hist[t]) = 3
        /\ hist[t][1].op = "set" /\ hist[t][1].ret = hist[t][1].arg
        /\ hist[t][2].op = "set" /\ hist[t][2].ret = None
        /\ hist[t][2].arg # hist[t][1].arg
        /\ hist[t][3].op = "get" /\ hist[t][3].ret = hist[t][1].arg

\* The callers inside their transit window.
InTransit == {t \in won : pc[t] \in {"set_write", "set_writing", "set_step1"}}

\* C12: a set_or_get caller waits only while the flag is READY already or
\* the winner is inside its transit window; every set_or_get call that
\* returns returns the stored value; and under fair scheduling every
\* set_or_get call returns: as callers make finitely many calls here,
\* eventually no caller is inside set_or_get any more.
C12_SetOrGetReturns ==
    /\ [](\A t \in Threads : pc[t] = "sog_wait" =>
              \/ cell.init = READY
              \/ cell.init = IN_TRANSIT /\ InTransit # {})
    /\ [](\A c \in Done : c.op = "set_or_get" =>
              cell.value.tag = "init" /\ c.ret = Some(cell.value.bits))
    /\ <>[](\A t \in Threads : op[t] # "set_or_get")

\* A set_or_get caller that lost the race has left its wait loop.
C12_Witness ==
    \E t \in Threads \ won :
        /\ op[t] = "set_or_get"
        /\ pc[t] = "sog_read"
        /\ arg[t] # Some(cell.value.bits)

\* The do_or_get calls that have invoked their closure: the completed ones
\* and those in progress past the invocation.
PastF ==
    Cardinality({<<t, i>> \in Threads \X (1..MaxCalls + 1) :
                    i <= Len(hist[t]) /\ hist[t][i].op = "do_or_get"})
    + Cardinality({t \in Threads : op[t] = "do_or_get" /\ pc[t] # "dog_f"})

\* C13: every do_or_get call invokes f exactly once, as its first step and
\* before it touches the cell, whatever the state of the flag; the slot is
\* still written once, and do_or_get returns the stored value.
C13_DoOrGetEager ==
    /\ [](f_calls = PastF)
    /\ [](writes <= 1)
    /\ [](\A c \in Done : c.op = "do_or_get" =>
              cell.value.tag = "init" /\ c.ret = Some(cell.value.bits))
    /\ [][\A t \in Threads : (pc[t] = "dog_f" /\ pc'[t] # "dog_f") =>
              /\ f_calls' = f_calls + 1
              /\ cell' = cell
              /\ pc'[t] = "set_is"]_vars
    /\ [][f_calls' # f_calls => \E t \in Threads : pc[t] = "dog_f" /\ pc'[t] = "set_is"]_vars

\* Two do_or_get calls each invoked f, the second on a cell that was READY
\* already; one value was written and the second caller got it back
\* instead of its own.
C13_Witness ==
    /\ f_calls = 2
    /\ writes = 1
    /\ \E t \in Threads : \E c \in Range(hist[t]) :
          c.op = "do_or_get" /\ c.ret # c.arg
    /\ \E t \in Threads :
          op[t] = "do_or_get" /\ pc[t] = "set_is" /\ is(cell.init)

\* Thread t is inside the set call in which it won step(NOT_READY).
Winning(t) ==
    t \in won /\ pc[t] \in {"set_write", "set_writing", "set_step1", "set_read"}

\* Thread t's call returns in this step.
Returns(t) == op[t] # "none" /\ op'[t] = "none"

Result(t) == hist'[t][Len(hist'[t])].ret

\* C14: a set call returns a reference exactly when it is the call that won
\* step(NOT_READY) and wrote the slot, and then the reference is to its own
\* value; a set call that returns absence changed neither slot nor flag:
\* the only steps of set callers that change the cell are the winner's.
C14_SetFrame ==
    /\ [][\A t \in Threads : (op[t] = "set" /\ Returns(t)) =>
              /\ Result(t) # None <=> Winning(t)
              /\ Result(t) # None =>
                    /\ Result(t) = arg[t]
                    /\ cell.value = Written(arg[t][1])
                    /\ t \in published
              /\ Result(t) = None => cell' = cell /\ writes' = writes]_vars
    /\ [][\A t \in Threads : (op[t] = "set" /\ pc'[t] # pc[t] /\ cell' # cell) =>
              /\ t \in won'
              /\ pc'[t] \in {"set_write", "set_writing", "set_step1", "set_read"}]_vars
    /\ [](\A t \in Threads : (op[t] = "set" /\ pc[t] \in {"set_is", "set_step0"}) =>
              ~Winning(t))

\* Two set calls of one caller returned absence and left the cell alone,
\* the other caller's set having won with a different value.
C14_Witness ==
    \E t \in Threads :
        /\ Len(hist[t]) = 2
        /\ hist[t][1].op = "set" /\ hist[t][1].ret = None
        /\ hist[t][2].op = "set" /\ hist[t][2].ret = None
        /\ \E u \in Threads \ {t} : \E c \in Range(hist[u]) : c.op = "set" /\ c.ret # None
        /\ hist[t][1].arg # Some(cell.value.bits)

\* C17: unreachable!() is never executed: the winner's step(IN_TRANSIT)
\* always succeeds, because while the flag is IN_TRANSIT the only step
\* that changes it is the winner's own step(IN_TRANSIT).
C17_UnreachableNeverRuns ==
    /\ [](\A t \in Threads : pc[t] # "unreachable")
    /\ [](\A t \in Threads : pc[t] = "set_step1" => cell.init = IN_TRANSIT /\ t \in won)
    /\ [][(cell.init = IN_TRANSIT /\ cell.init' # cell.init) =>
            /\ cell.init' = READY
            /\ \E t \in won : pc[t] = "set_step1" /\ pc'[t] = "set_read"]_vars

\* The winner has passed its step(IN_TRANSIT) although another caller's
\* set ran against the cell while the winner was in its transit window.
C17_Witness ==
    \E t \in won :
        /\ pc[t] = "set_read"
        /\ \E u \in Threads \ {t} :
              /\ pc[u] = "set_step0"
              /\ \E c \in Range(hist[u]) : c.op # "get" /\ c.ret = None

====
